---- MODULE Spec2Model ----
(***************************************************************************)
(* Model of traceroutemap.py: a batch of traceroutes, one worker thread    *)
(* per web site, collected by main() in submission order, each outcome     *)
(* written to the SQLite table as it is collected, then a report.          *)
(*                                                                         *)
(* Text is modelled structurally.  A whitespace-separated field (str) is   *)
(* the sequence of its '.'-separated parts, each part a string; a line is  *)
(* the sequence of its fields (what line.split() returns); the standard    *)
(* output of traceroute is the sequence of its lines (what splitlines()    *)
(* returns).  No field splits into zero parts, so the empty sequence is    *)
(* free to stand for Python's None.                                        *)
(*                                                                         *)
(* Latencies are exact decimals counted in thousandths of a millisecond;   *)
(* a quotient is kept as the pair <<numerator, denominator>>.  The         *)
(* rounding of binary floating point is not modelled.                      *)
(***************************************************************************)
EXTENDS Integers, Sequences, FiniteSets, TLC

VARIABLES
    websites,      \* the target list main() iterates over (TOP_WEBSITES)
    net,           \* environment: what `traceroute -n site` prints when it succeeds
    futures,       \* number of futures created so far by the dict comprehension
    pc,            \* per site: position of the worker running perform_traceroute
    frame,         \* per site: local variables of perform_traceroute
    future,        \* per site: the Future's state (pending / result / exception)
    runs,          \* per site: how many times subprocess.run was invoked
    dns,           \* per site: what socket.gethostbyaddr did
    http,          \* per site: what requests.get did
    log,           \* the log records emitted so far
    mainpc,        \* position of main()
    cur,           \* index of the future main() is collecting
    all_results,   \* main()'s list of outcomes
    txn,           \* rows inserted on the open connection, not yet committed
    db,            \* committed rows of table results
    report         \* rows rendered by generate_reports

vars == <<websites, net, futures, pc, frame, future, runs, dns, http, log,
          mainpc, cur, all_results, txn, db, report>>

----------------------------------------------------------------------------
(* Bounds *)

NumTargets == 2      \* sites used from TOP_WEBSITES in a batch
MaxLines == 2        \* hop lines after the header in an enumerated output

----------------------------------------------------------------------------
(* Text *)

None == <<>>

\* the decimal strings that occur in the modelled outputs, with their values
Digits ==
    ("0" :> 0) @@ ("1" :> 1) @@ ("2" :> 2) @@ ("3" :> 3) @@ ("4" :> 4) @@
    ("5" :> 5) @@ ("10" :> 10) @@ ("255" :> 255) @@ ("256" :> 256)

\* value of a decimal string read as the digits after the point, in thousandths
Thousandths ==
    ("0" :> 0) @@ ("1" :> 100) @@ ("2" :> 200) @@ ("3" :> 300) @@ ("4" :> 400) @@
    ("5" :> 500) @@ ("10" :> 100) @@ ("255" :> 255) @@ ("256" :> 256)

isdigit(part) == part \in DOMAIN Digits

int(part) == Digits[part]

\* ip.split('.') is the field itself; line 57: every part a decimal in 0..255
ValidIP(ip) ==
    \A i \in 1..Len(ip) : isdigit(ip[i]) /\ 0 <= int(ip[i]) /\ int(ip[i]) <= 255

\* line 58: lat.replace('.', '', 1).isdigit() -- dropping the first '.' joins the
\* first two parts; a third part would leave a '.' in the string
IsNumber(lat) ==
    /\ Len(lat) <= 2
    /\ \A i \in 1..Len(lat) : lat[i] = "" \/ isdigit(lat[i])
    /\ \E i \in 1..Len(lat) : isdigit(lat[i])

\* line 58: float(lat), in thousandths
float(lat) ==
    (IF lat[1] = "" THEN 0 ELSE 1000 * int(lat[1]))
    + (IF Len(lat) = 2 /\ lat[2] # "" THEN Thousandths[lat[2]] ELSE 0)

RECURSIVE sum(_)
sum(seq) == IF seq = <<>> THEN 0 ELSE Head(seq) + sum(Tail(seq))

\* line 58: the list comprehension over fields[2:]
RECURSIVE Latencies(_)
Latencies(tokens) ==
    IF tokens = <<>> THEN <<>>
    ELSE (IF IsNumber(Head(tokens)) THEN <<float(Head(tokens))>> ELSE <<>>)
         \o Latencies(Tail(tokens))

\* line 55: the line has a second field and it is not the '*' marker
HasAddress(fields) == Len(fields) > 1 /\ fields[2] # <<"*">>

\* lines 55-57: the line is recorded as a hop
Responsive(fields) == HasAddress(fields) /\ ValidIP(fields[2])

\* the loop body with the address put in front of the path (path.insert(0, ip))
ParseLinePrepend(acc, fields) ==
    IF Responsive(fields)
    THEN [path |-> <<fields[2]>> \o acc.path,
          total_latency |-> acc.total_latency
                            + sum(Latencies(SubSeq(fields, 3, Len(fields)))),
          last_responded_ip |-> fields[2]]
    ELSE acc

\* the loop body with total_latency assigned (=) instead of accumulated (+=)
ParseLineOverwrite(acc, fields) ==
    IF Responsive(fields)
    THEN [path |-> Append(acc.path, fields[2]),
          total_latency |-> sum(Latencies(SubSeq(fields, 3, Len(fields)))),
          last_responded_ip |-> fields[2]]
    ELSE acc

\* lines 54-61: one iteration of the loop over the hop lines
ParseLine(acc, fields) ==
    IF Responsive(fields)
    THEN [path |-> Append(acc.path, fields[2]),
          total_latency |-> acc.total_latency
                            + sum(Latencies(SubSeq(fields, 3, Len(fields)))),
          last_responded_ip |-> fields[2]]
    ELSE acc

RECURSIVE ParseLoop(_, _)
ParseLoop(acc, lines) ==
    IF lines = <<>> THEN acc
    ELSE ParseLoop(ParseLine(acc, Head(lines)), Tail(lines))

\* lines 49-53: lines[1:], the output without its first line
HopLinesOf(stdout) == SubSeq(stdout, 2, Len(stdout))

\* lines 37, 50-61: the hop sequence, latency total and last responsive address
Parse(stdout) ==
    ParseLoop([path |-> <<>>, total_latency |-> 0, last_responded_ip |-> None],
              HopLinesOf(stdout))

\* the quotient without the guard for an empty path
AverageUnguarded(total_latency, hop_count) == <<total_latency, hop_count>>

\* line 64: the quotient as <<numerator, denominator>>, 0 when there is no hop
Average(total_latency, hop_count) ==
    IF hop_count > 0 THEN <<total_latency, hop_count>> ELSE <<0, 1>>

\* the count without the set: len(path)
UniqueCountAll(path) == Len(path)

\* line 65: len(set(path))
UniqueCount(path) == Cardinality({path[i] : i \in 1..Len(path)})

\* line 66: "; ".join(path), as the pieces of the joined text
Separator == <<"; ">>

RECURSIVE join(_)
join(path) ==
    IF path = <<>> THEN <<>>
    ELSE IF Len(path) = 1 THEN <<path[1]>>
    ELSE <<path[1], Separator>> \o join(Tail(path))

\* lines 49-66: the locals of perform_traceroute once the metrics are computed
Measure(stdout) ==
    LET p == Parse(stdout)
        hop_count == Len(p.path)
    IN  [path |-> p.path,
         total_latency |-> p.total_latency,
         last_responded_ip |-> p.last_responded_ip,
         hop_count |-> hop_count,
         avg_latency |-> Average(p.total_latency, hop_count),
         unique_path_count |-> UniqueCount(p.path),
         geo_ip_data |-> join(p.path),
         fqdn |-> None]

\* lines 37-38: the locals when perform_traceroute is entered
EmptyFrame ==
    [path |-> <<>>, total_latency |-> 0, last_responded_ip |-> None,
     hop_count |-> 0, avg_latency |-> <<0, 1>>, unique_path_count |-> 0,
     geo_ip_data |-> <<>>, fqdn |-> None]

\* the tuple built before the name is resolved
OutcomeWithoutName(site, f) ==
    <<site, f.hop_count, f.avg_latency, f.unique_path_count, f.geo_ip_data, None>>

\* line 77: the tuple perform_traceroute returns
Outcome(site, f) ==
    <<site, f.hop_count, f.avg_latency, f.unique_path_count, f.geo_ip_data, f.fqdn>>

----------------------------------------------------------------------------
(* Exceptions and the except clauses *)

\* the classes each raised exception is an instance of
Bases ==
    ("CalledProcessError" :> {"CalledProcessError", "SubprocessError", "Exception"}) @@
    ("TimeoutExpired" :> {"TimeoutExpired", "SubprocessError", "Exception"}) @@
    ("herror" :> {"herror", "OSError", "Exception"}) @@
    ("gaierror" :> {"gaierror", "OSError", "Exception"}) @@
    ("ConnectionError" :> {"ConnectionError", "RequestException", "OSError", "Exception"})

\* line 79: except subprocess.CalledProcessError
TracerouteHandler == "CalledProcessError"

\* line 71: except socket.herror
ResolveHandler == "herror"

\* a narrower clause: except requests.Timeout
GeolocationHandlerTimeoutOnly == "Timeout"

\* line 100: except requests.RequestException
GeolocationHandler == "RequestException"

Catches(handler, exc) == handler \in Bases[exc]

----------------------------------------------------------------------------
(* The environment *)

\* lines 16-20
TOP_WEBSITES ==
    <<"google.com", "youtube.com", "facebook.com", "twitter.com",
      "instagram.com", "linkedin.com", "wikipedia.org", "amazon.com",
      "yahoo.com", "netflix.com">>

Sites == {websites[i] : i \in 1..Len(websites)}

Word(w) == <<w>>

Header ==
    <<Word("traceroute"), Word("to"), <<"example", "com">>, Word("30"),
      Word("hops"), Word("max")>>

IpA == <<"10", "0", "0", "1">>
IpB == <<"10", "0", "0", "5">>

\* hop lines traceroute -n can print, and malformed ones
LineThreeSamples ==
    <<Word("1"), IpA, <<"1", "1">>, Word("ms"), <<"1", "0">>, Word("ms"),
      <<"1", "2">>, Word("ms")>>
LineStars == <<Word("2"), Word("*"), Word("*"), Word("*")>>
LineTwoSamples ==
    <<Word("3"), IpB, <<"5", "5">>, Word("ms"), <<"5", "2">>, Word("ms")>>
LineOneField == <<Word("4")>>
LineBlank == <<>>
LineOctet256 == <<Word("5"), <<"10", "0", "0", "256">>, <<"1", "0">>, Word("ms")>>
LineTwoParts == <<Word("5"), <<"10", "0">>, <<"2", "0">>, Word("ms")>>
LineFiveParts ==
    <<Word("5"), <<"1", "2", "3", "4", "5">>, <<"3", "0">>, Word("ms")>>
LineRepeat == <<Word("4"), IpA, Word("*"), <<"2", "5">>, Word("ms"), Word("*")>>
LineIPv6 == <<Word("5"), Word("2001:db8::1"), <<"1", "0">>, Word("ms")>>
LineOddSamples ==
    <<Word("5"), IpB, <<"1", "2", "3">>, Word("ms"), Word("4"), Word("ms"),
      Word("-1"), Word("ms")>>

HopLines ==
    {LineThreeSamples, LineStars, LineTwoSamples, LineOneField, LineBlank,
     LineOctet256, LineTwoParts, LineFiveParts, LineRepeat, LineIPv6,
     LineOddSamples}

RECURSIVE SeqsUpTo(_, _)
SeqsUpTo(S, n) ==
    IF n = 0 THEN {<<>>}
    ELSE LET shorter == SeqsUpTo(S, n - 1)
         IN  shorter \cup {Append(q, x) : q \in shorter, x \in S}

\* standard outputs: nothing at all, or a header and up to MaxLines hop lines
RawOutputs == {<<>>} \cup {<<Header>> \o ls : ls \in SeqsUpTo(HopLines, MaxLines)}

\* the outputs used when a whole batch runs: one hop, and no responsive hop
BatchOutputs == {<<Header, LineTwoSamples>>, <<Header, LineStars>>}

\* what subprocess.run does (lines 42-48): returns with exit status 0, raises
\* CalledProcessError on another status (check=True), or TimeoutExpired
RunResults == {"returned", "CalledProcessError", "TimeoutExpired"}

\* the name a successful reverse lookup returns
PtrName == <<"router", "example", "net">>

\* what socket.gethostbyaddr does (line 70): gives a name, raises herror when the
\* resolver finds none, and raises gaierror when its argument is neither an
\* address literal (one to four numeric parts) nor a resolvable host name
LookupResults(ip) ==
    {"name", "herror"} \cup (IF Len(ip) > 4 THEN {"gaierror"} ELSE {})

\* what requests.get does (line 98): a response, or a transport exception
NoException == "none"

Reply(status_code, json) ==
    [raises |-> NoException, status_code |-> status_code, json |-> json]

Responses ==
    {Reply(200, "country" :> "Russia"), Reply(200, "country" :> "China"),
     Reply(200, "country" :> "France"), Reply(200, "status" :> "fail"),
     Reply(429, "country" :> "Russia"),
     [raises |-> "ConnectionError", status_code |-> 0, json |-> <<>>]}

NoReply == [raises |-> NoException, status_code |-> 0, json |-> <<>>]

----------------------------------------------------------------------------
(* Risk evaluation, lines 84-106 *)

\* line 89
WatchList == {"China", "Russia"}

\* get_geolocation without the status check of line 99
get_geolocationAnyStatus(response) ==
    IF response.raises # NoException THEN <<>> ELSE response.json

\* lines 97-102: the dictionary get_geolocation returns ({} is <<>>)
get_geolocation(response) ==
    IF response.raises # NoException THEN <<>>
    ELSE IF response.status_code = 200 THEN response.json ELSE <<>>

\* line 88: location_info.get('country', '')
Country(location_info) ==
    IF "country" \in DOMAIN location_info THEN location_info["country"] ELSE ""

\* lines 87-90: the country alert is logged
CountryAlert(location_info) ==
    DOMAIN location_info # {} /\ Country(location_info) \in WatchList

\* lines 104-106
check_ip_threat_level(ip) == FALSE

\* a log record: its level, its message (the text and what it names) and the
\* site whose worker emitted it ("" for the main thread)
Record(level, message, site) == [level |-> level, message |-> message, site |-> site]

\* lines 86-93: the log records detect_anomalies_and_threats emits after the
\* geolocation response has arrived
AlertRecords(site, response, ip) ==
    (IF response.raises # NoException
        THEN {Record("ERROR", <<"Geolocation lookup failed for IP">>, site)} ELSE {})
    \cup (IF CountryAlert(get_geolocation(response))
             THEN {Record("WARNING", <<"Security alert! Traffic through",
                                       Country(get_geolocation(response))>>, site)}
             ELSE {})
    \cup (IF check_ip_threat_level(ip)
             THEN {Record("WARNING", <<"Security threat detected!">>, site)} ELSE {})

----------------------------------------------------------------------------
(* Futures *)

Pending == [state |-> "PENDING", result |-> None, exception |-> NoException]
Returned(value) == [state |-> "FINISHED", result |-> value, exception |-> NoException]
Raised(exc) == [state |-> "FINISHED", result |-> None, exception |-> exc]

----------------------------------------------------------------------------
(* The initial states *)

Start(sites, outputs) ==
    /\ websites = sites
    /\ net \in [Sites -> outputs]
    /\ futures = 0
    /\ pc = [s \in Sites |-> "unsubmitted"]
    /\ frame = [s \in Sites |-> EmptyFrame]
    /\ future = [s \in Sites |-> Pending]
    /\ runs = [s \in Sites |-> 0]
    /\ dns = [s \in Sites |-> "none"]
    /\ http = [s \in Sites |-> NoReply]
    /\ log = {}
    /\ mainpc = "submit"
    /\ cur = 1
    /\ all_results = <<>>
    /\ txn = <<>>
    /\ db = <<>>
    /\ report = <<>>

\* a batch over the first NumTargets sites
Init == Start(SubSeq(TOP_WEBSITES, 1, NumTargets), BatchOutputs)

\* one site, every enumerated output
InitPipe == Start(SubSeq(TOP_WEBSITES, 1, 1), RawOutputs)

----------------------------------------------------------------------------
(* perform_traceroute, run by a worker thread, lines 36-81 *)

workerVars == <<pc, frame, future, runs, dns, http, log>>
mainVars == <<futures, mainpc, cur, all_results, txn, db, report>>

\* the worker ends: the future is resolved and the frame is gone
Finish(site, outcome, records) ==
    /\ pc' = [pc EXCEPT ![site] = "done"]
    /\ frame' = [frame EXCEPT ![site] = EmptyFrame]
    /\ future' = [future EXCEPT ![site] = outcome]
    /\ log' = log \cup records

\* lines 79-81: an exception raised inside the try block reaches the except
\* clause; one it does not name leaves perform_traceroute and is stored in the future
Except(site, exc) ==
    IF Catches(TracerouteHandler, exc)
    THEN Finish(site, Returned(None), {Record("ERROR", <<"Traceroute command failed">>, site)})
    ELSE Finish(site, Raised(exc), {})

\* lines 75, 85-86: detect_anomalies_and_threats is entered and sends its query
Detect(site, f) ==
    /\ pc' = [pc EXCEPT ![site] = "requests_get"]
    /\ frame' = [frame EXCEPT ![site] = f]
    /\ log' = log \cup {Record("INFO", <<"Monitoring Anomalies">>, site)}
    /\ UNCHANGED future

\* a pool of one worker thread
max_workersSingle(targets) == IF targets = <<>> THEN 0 ELSE 1

\* line 147: ThreadPoolExecutor(max_workers=len(TOP_WEBSITES))
max_workers(targets) == Len(targets)

\* the sites whose task occupies a worker thread of the pool
Busy == {s \in Sites : pc[s] \in {"traceroute", "gethostbyaddr", "requests_get"}}

\* lines 40-48: a worker thread of the pool is free, picks the task up and
\* launches traceroute
StartTraceroute(site) ==
    /\ pc[site] = "queued"
    /\ Cardinality(Busy) < max_workers(websites)
    /\ pc' = [pc EXCEPT ![site] = "traceroute"]
    /\ runs' = [runs EXCEPT ![site] = @ + 1]
    /\ log' = log \cup {Record("INFO", <<"Starting traceroute for", site>>, site)}
    /\ UNCHANGED <<websites, net, frame, future, dns, http>>
    /\ UNCHANGED mainVars

\* lines 42-68: subprocess.run ends; on success the output is parsed and measured
Traceroute(site) ==
    /\ pc[site] = "traceroute"
    /\ \E r \in RunResults :
         IF r = "returned"
         THEN LET f == Measure(net[site])
              IN  IF f.last_responded_ip # None
                  THEN /\ pc' = [pc EXCEPT ![site] = "gethostbyaddr"]
                       /\ frame' = [frame EXCEPT ![site] = f]
                       /\ UNCHANGED <<future, log>>
                  ELSE Detect(site, f)
         ELSE Except(site, r)
    /\ UNCHANGED <<websites, net, runs, dns, http>>
    /\ UNCHANGED mainVars

\* lines 68-75: the reverse lookup ends
Gethostbyaddr(site) ==
    /\ pc[site] = "gethostbyaddr"
    /\ \E r \in LookupResults(frame[site].last_responded_ip) :
         /\ dns' = [dns EXCEPT ![site] = r]
         /\ IF r = "name"
            THEN Detect(site, [frame[site] EXCEPT !.fqdn = PtrName])
            ELSE IF Catches(ResolveHandler, r)
            THEN Detect(site, [frame[site] EXCEPT !.fqdn = frame[site].last_responded_ip])
            ELSE Except(site, r)
    /\ UNCHANGED <<websites, net, runs, http>>
    /\ UNCHANGED mainVars

\* lines 86-93, 97-102, 77: the geolocation query ends, the alerts are logged
\* and perform_traceroute returns its tuple
RequestsGet(site) ==
    /\ pc[site] = "requests_get"
    /\ \E r \in Responses :
         /\ http' = [http EXCEPT ![site] = r]
         /\ IF r.raises # NoException /\ ~Catches(GeolocationHandler, r.raises)
            THEN Except(site, r.raises)
            ELSE Finish(site, Returned(Outcome(site, frame[site])),
                        AlertRecords(site, r, frame[site].last_responded_ip))
    /\ UNCHANGED <<websites, net, runs, dns>>
    /\ UNCHANGED mainVars

----------------------------------------------------------------------------
(* main, lines 146-159 *)

\* line 148: executor.submit for the next site of the list
Submit ==
    /\ mainpc = "submit"
    /\ futures < Len(websites)
    /\ futures' = futures + 1
    /\ pc' = [pc EXCEPT ![websites[futures + 1]] = "queued"]
    /\ mainpc' = IF futures + 1 = Len(websites) THEN "result" ELSE "submit"
    /\ UNCHANGED <<websites, net, frame, future, runs, dns, http, log,
                   cur, all_results, txn, db, report>>

\* the futures visited last first
FutureAtReversed(i) == websites[Len(websites) + 1 - i]

\* line 150: the futures are visited in the order they were inserted
FutureAt(i) == websites[i]

\* the loop left after its first iteration
NextFutureBreak(i) == "shutdown"

\* line 150: the loop moves to the next future, or ends
NextFuture(i) == IF i < Len(websites) THEN "result" ELSE "shutdown"

\* lines 151-153: future.result() of the current future returns or raises
Result ==
    /\ mainpc = "result"
    /\ LET f == future[FutureAt(cur)]
       IN  /\ f.state = "FINISHED"
           /\ IF f.exception # NoException
              THEN /\ mainpc' = "unwind"
                   /\ UNCHANGED <<cur, all_results>>
              ELSE IF f.result # None
              THEN /\ all_results' = Append(all_results, f.result)
                   /\ mainpc' = "update_database"
                   /\ UNCHANGED cur
              ELSE /\ mainpc' = NextFuture(cur)
                   /\ cur' = IF cur < Len(websites) THEN cur + 1 ELSE cur
                   /\ UNCHANGED all_results
    /\ UNCHANGED <<websites, net, futures, txn, db, report>>
    /\ UNCHANGED workerVars

\* lines 110-112: update_database connects and inserts the row
UpdateDatabase ==
    /\ mainpc = "update_database"
    /\ txn' = <<all_results[Len(all_results)]>>
    /\ mainpc' = "commit"
    /\ UNCHANGED <<websites, net, futures, cur, all_results, db, report>>
    /\ UNCHANGED workerVars

\* commit without conn.close(): the connection stays open with its rows
CommitKeepOpen ==
    /\ mainpc = "commit"
    /\ db' = db \o txn
    /\ mainpc' = NextFuture(cur)
    /\ cur' = IF cur < Len(websites) THEN cur + 1 ELSE cur
    /\ UNCHANGED <<websites, net, futures, all_results, report, txn>>
    /\ UNCHANGED workerVars

\* lines 113-114: commit and close; the loop goes on
Commit ==
    /\ mainpc = "commit"
    /\ db' = db \o txn
    /\ txn' = <<>>
    /\ mainpc' = NextFuture(cur)
    /\ cur' = IF cur < Len(websites) THEN cur + 1 ELSE cur
    /\ UNCHANGED <<websites, net, futures, all_results, report>>
    /\ UNCHANGED workerVars

AllWorkersDone == \A s \in Sites : pc[s] = "done"

\* line 147: leaving the with block joins the workers (shutdown(wait=True))
Shutdown ==
    /\ mainpc = "shutdown"
    /\ AllWorkersDone
    /\ mainpc' = "generate_reports"
    /\ UNCHANGED <<websites, net, futures, cur, all_results, txn, db, report>>
    /\ UNCHANGED workerVars

\* line 147: the same on the way out with an exception, which then leaves main
\* uncaught: the interpreter prints the traceback and exits with status 1
Unwind ==
    /\ mainpc = "unwind"
    /\ AllWorkersDone
    /\ mainpc' = "failed"
    /\ UNCHANGED <<websites, net, futures, cur, all_results, txn, db, report>>
    /\ UNCHANGED workerVars

\* lines 137, 139: str(n), the decimal string of a count
str(n) == CHOOSE d \in DOMAIN Digits : Digits[d] = n

\* line 138: f"{avg:.2f}", as the number of hundredths of a millisecond the
\* text shows (the quotient of thousandths rounded half to even)
Format2f(avg) ==
    LET unit == 10 * avg[2]
        q == avg[1] \div unit
        r == avg[1] % unit
    IN  IF 2 * r > unit \/ (2 * r = unit /\ q % 2 = 1) THEN q + 1 ELSE q

\* lines 134-141: one row of the table as rendered
Rendered(row) ==
    <<row[1], str(row[2]), Format2f(row[3]), str(row[4]),
      IF row[6] # None THEN row[6] ELSE Word("Unknown")>>

\* lines 117-143, 159: the report is printed, main returns, the last line is logged
GenerateReports ==
    /\ mainpc = "generate_reports"
    /\ report' = [i \in 1..Len(db) |-> Rendered(db[i])]
    /\ log' = log \cup {Record("INFO", <<"Traceroutes completed and database updated.">>, "")}
    /\ mainpc' = "done"
    /\ UNCHANGED <<websites, net, futures, cur, all_results, txn, db>>
    /\ UNCHANGED <<pc, frame, future, runs, dns, http>>

\* the exit status of the process, once it has ended
ExitStatus == IF mainpc = "failed" THEN 1 ELSE 0

----------------------------------------------------------------------------

Next ==
    \/ Submit
    \/ \E site \in Sites : StartTraceroute(site)
    \/ \E site \in Sites : Traceroute(site)
    \/ \E site \in Sites : Gethostbyaddr(site)
    \/ \E site \in Sites : RequestsGet(site)
    \/ Result
    \/ UpdateDatabase
    \/ Commit
    \/ Shutdown
    \/ Unwind
    \/ GenerateReports

Spec == Init /\ [][Next]_vars

SpecPipe == InitPipe /\ [][Next]_vars

----------------------------------------------------------------------------
(* Vocabulary of the claims *)

Index(site) == CHOOSE i \in 1..Len(websites) : websites[i] = site

\* the trace of the site failed: non-zero exit (None returned) or timeout
TraceFailed(site) ==
    /\ pc[site] = "done"
    /\ \/ future[site] = Returned(None)
       \/ future[site].exception = "TimeoutExpired"

\* the pipeline of the site returned an outcome
Succeeded(site) == future[site].state = "FINISHED" /\ future[site].result # None

\* the outcome of the site is a committed row
Persisted(site) == \E i \in 1..Len(db) : db[i] = future[site].result

Collected(site) == \E i \in 1..Len(all_results) : all_results[i] = future[site].result

HasRow(site) == \E i \in 1..Len(db) : db[i][1] = site

Ended == mainpc \in {"done", "failed"}

\* C1: when the run has ended, every target whose pipeline succeeded has its
\* outcome collected and persisted, whichever other targets failed their trace
\* and wherever they stand in the list.
C1_Isolation ==
    Ended =>
        \A a, b \in Sites :
            (a # b /\ TraceFailed(a) /\ Succeeded(b)) => (Collected(b) /\ Persisted(b))

\* C2: whatever the trace results, the run ends with every future collected, the
\* report generated and exit status 0.
C2_RunCompletes ==
    /\ mainpc # "failed"
    /\ Ended =>
        /\ ExitStatus = 0
        /\ Len(all_results) = Cardinality({s \in Sites : Succeeded(s)})
        /\ Record("INFO", <<"Traceroutes completed and database updated.">>, "") \in log

\* C3: traceroute runs at most once per target; a target whose trace failed has
\* no outcome in the result list and no row, and its failure shows only as an
\* error record in the log (not as an exception held by its future).
C3_FailedTargetDropped ==
    \A s \in Sites :
        /\ runs[s] <= 1
        /\ TraceFailed(s) =>
            /\ ~HasRow(s)
            /\ \A i \in 1..Len(all_results) : all_results[i][1] # s
            /\ Record("ERROR", <<"Traceroute command failed">>, s) \in log
            /\ future[s].exception = NoException

\* main is blocked in result() of site a, the sink is idle, and the finished
\* outcome of site b is not persisted yet
Blocked(b, a) ==
    /\ mainpc = "result"
    /\ txn = <<>>
    /\ FutureAt(cur) = a
    /\ pc[a] # "done"
    /\ Succeeded(b)
    /\ ~Persisted(b)

C5_ReportAfterAll ==
    /\ mainpc \in {"generate_reports", "done"} =>
        /\ AllWorkersDone
        /\ txn = <<>>
        /\ \A s \in Sites : Succeeded(s) => Persisted(s)
    /\ report # <<>> => mainpc = "done"

\* the report was generated for a batch with a failed and a persisted target
C5_Witness ==
    /\ mainpc = "done"
    /\ report # <<>>
    /\ \E s \in Sites : TraceFailed(s)

\* the locals of the worker hold the parsed path and the metrics
Measured(site) == pc[site] \in {"gethostbyaddr", "requests_get"}

CountryAlertRecord(site, country) ==
    Record("WARNING", <<"Security alert! Traffic through", country>>, site)

\* C6: once the geolocation query has ended, whatever its result, the worker has
\* returned the outcome of its site and raised nothing; a transport failure or a
\* status other than 200 leaves no country alert.
C6_RiskNeverAborts ==
    \A s \in Sites :
        http[s] # NoReply =>
            /\ future[s].state = "FINISHED"
            /\ future[s].exception = NoException
            /\ future[s].result # None
            /\ future[s].result[1] = s
            /\ (http[s].raises # NoException \/ http[s].status_code # 200) =>
                   \A c \in {"China", "Russia", "France", ""} :
                       CountryAlertRecord(s, c) \notin log

\* the geolocation query failed in transport and the outcome was returned
C6_Witness ==
    \E s \in Sites : http[s].raises = "ConnectionError" /\ Succeeded(s)

Last(seq) == seq[Len(seq)]

\* C7: when the reverse lookup of the last responsive address X fails, the
\* pipeline goes on with resolved name X; when it succeeds the name is the one
\* returned; without a responsive hop the name is null.
C7_FallbackLaw ==
    \A s \in Sites :
        /\ dns[s] \in {"herror", "gaierror"} =>
            /\ future[s].exception = NoException
            /\ pc[s] = "requests_get" => frame[s].fqdn = frame[s].last_responded_ip
            /\ Succeeded(s) => future[s].result[6] = Last(future[s].result[5])
        /\ (dns[s] = "name" /\ Succeeded(s)) => future[s].result[6] = PtrName
        /\ (Succeeded(s) /\ future[s].result[2] = 0) => future[s].result[6] = None

\* indexes of the output lines recorded as hops
RecordedLines(stdout) == {i \in 2..Len(stdout) : Responsive(stdout[i])}

\* sum of every latency sample on the lines with the given indexes
RECURSIVE SampleTotal(_, _)
SampleTotal(stdout, lines) ==
    IF lines = {} THEN 0
    ELSE LET i == CHOOSE j \in lines : TRUE
         IN  sum(Latencies(SubSeq(stdout[i], 3, Len(stdout[i]))))
             + SampleTotal(stdout, lines \ {i})

MetricsAgree(stdout, hop_count, avg_latency) ==
    /\ hop_count = Cardinality(RecordedLines(stdout))
    /\ avg_latency[2] > 0
    /\ IF hop_count = 0
       THEN avg_latency[1] = 0
       ELSE avg_latency[1] * hop_count
                = SampleTotal(stdout, RecordedLines(stdout)) * avg_latency[2]

\* C8: hop_count is the number of lines recorded as hops and avg_latency is the
\* sum of every latency sample of those lines divided by hop_count, 0 when no
\* hop is recorded.
C8_Metrics ==
    \A s \in Sites :
        /\ Measured(s) => MetricsAgree(net[s], frame[s].hop_count, frame[s].avg_latency)
        /\ Succeeded(s) => MetricsAgree(net[s], future[s].result[2], future[s].result[3])

\* two hops with three and two samples: 14.0 ms over 2 hops
C8_Witness ==
    \E s \in Sites :
        /\ Succeeded(s)
        /\ net[s] = <<Header, LineThreeSamples, LineTwoSamples>>
        /\ future[s].result[2] = 2
        /\ future[s].result[3] = <<14000, 2>>

DottedQuad(ip) ==
    /\ Len(ip) = 4
    /\ \A i \in 1..4 : isdigit(ip[i]) /\ int(ip[i]) \in 0..255

\* C9: every recorded hop has a dotted-quad address of four parts in 0..255;
\* lines with another second field, or with fewer than two fields, record
\* nothing.
C9_ValidHops ==
    \A s \in Sites :
        Measured(s) =>
            /\ \A i \in 1..Len(frame[s].path) : DottedQuad(frame[s].path[i])
            /\ frame[s].hop_count
                   = Cardinality({i \in 2..Len(net[s]) :
                                     Len(net[s][i]) >= 2 /\ DottedQuad(net[s][i][2])})

\* C10: the country alert of a site is in the log exactly when its geolocation
\* query answered 200 with a country of the watch-list, and it names that
\* country; no threat alert is logged with or without it.
C10_WatchListAlert ==
    \A s \in Sites :
        /\ \A c \in {"China", "Russia", "France", ""} :
               CountryAlertRecord(s, c) \in log <=>
                   /\ c \in {"China", "Russia"}
                   /\ http[s].raises = NoException
                   /\ http[s].status_code = 200
                   /\ "country" \in DOMAIN http[s].json
                   /\ http[s].json["country"] = c
        /\ Record("WARNING", <<"Security threat detected!">>, s) \notin log

\* the provider answered Russia and the alert naming it was logged
C10_Witness ==
    \E s \in Sites :
        /\ http[s] = Reply(200, "country" :> "Russia")
        /\ CountryAlertRecord(s, "Russia") \in log

\* the addresses of the output lines recorded as hops
RecordedAddresses(stdout) == {stdout[i][2] : i \in RecordedLines(stdout)}

\* two recorded lines of the output carry the same address
AddressRepeats(stdout) ==
    \E i, j \in RecordedLines(stdout) : i # j /\ stdout[i][2] = stdout[j][2]

UniqueAgrees(stdout, hop_count, unique_path_count) ==
    /\ unique_path_count = Cardinality(RecordedAddresses(stdout))
    /\ unique_path_count <= hop_count
    /\ unique_path_count = hop_count <=> ~AddressRepeats(stdout)

\* C11: unique_path_count is the number of distinct hop addresses; it is at
\* most hop_count, and equal to it exactly when no address repeats.
C11_UniqueCount ==
    \A s \in Sites :
        /\ Measured(s) =>
               UniqueAgrees(net[s], frame[s].hop_count, frame[s].unique_path_count)
        /\ Succeeded(s) =>
               UniqueAgrees(net[s], future[s].result[2], future[s].result[4])

\* the same address on two hop lines: two hops, one distinct address
C11_Witness ==
    \E s \in Sites :
        /\ Succeeded(s)
        /\ net[s] = <<Header, LineThreeSamples, LineRepeat>>
        /\ future[s].result[2] = 2
        /\ future[s].result[4] = 1

\* C12: main awaits a result only when every target has been submitted; a
\* submitted task can always start and a started task can always take its next
\* step, whatever the other tasks are doing.
C12_FanOut ==
    /\ mainpc \notin {"submit"} =>
           /\ futures = Len(websites)
           /\ \A s \in Sites : pc[s] # "unsubmitted"
    /\ futures <= max_workers(websites)
    /\ \A s \in Sites :
           /\ pc[s] = "queued" => ENABLED StartTraceroute(s)
           /\ pc[s] = "traceroute" => ENABLED Traceroute(s)
           /\ pc[s] = "gethostbyaddr" => ENABLED Gethostbyaddr(s)
           /\ pc[s] = "requests_get" => ENABLED RequestsGet(s)

\* a task is queued while the task of another site is inside its trace
C12_Witness ==
    \E a, b \in Sites : a # b /\ pc[a] = "traceroute" /\ pc[b] = "queued"

\* the positions a worker can move to from each position
StageOrder ==
    ("unsubmitted" :> {"queued"}) @@
    ("queued" :> {"traceroute"}) @@
    ("traceroute" :> {"gethostbyaddr", "requests_get", "done"}) @@
    ("gethostbyaddr" :> {"requests_get", "done"}) @@
    ("requests_get" :> {"done"}) @@
    ("done" :> {})

\* the addresses of the recorded lines, in the order of the lines
RECURSIVE AddressesFrom(_, _)
AddressesFrom(stdout, i) ==
    IF i > Len(stdout) THEN <<>>
    ELSE (IF i \in RecordedLines(stdout) THEN <<stdout[i][2]>> ELSE <<>>)
         \o AddressesFrom(stdout, i + 1)

\* the name the outcome of the site must carry, given what the lookup did
ExpectedName(site) ==
    LET ips == AddressesFrom(net[site], 2)
    IN  IF ips = <<>> THEN None
        ELSE IF dns[site] = "name" THEN PtrName ELSE Last(ips)

\* the row is the complete outcome of its site: every field is the value the
\* pipeline computes from the output of the site's trace and lookup
FullyPopulated(row) ==
    LET site == row[1]
        n == Cardinality(RecordedLines(net[site]))
    IN  /\ site \in Sites
        /\ Len(row) = 6
        /\ row[2] = n
        /\ MetricsAgree(net[site], row[2], row[3])
        /\ row[4] = Cardinality(RecordedAddresses(net[site]))
        /\ Len(row[5]) = (IF n = 0 THEN 0 ELSE 2 * n - 1)
        /\ row[6] = ExpectedName(site)
        /\ pc[site] = "done"
        /\ http[site] # NoReply
        /\ row = future[site].result

C13_StagesInOrder ==
    [][\A s \in Sites : pc'[s] # pc[s] => pc'[s] \in StageOrder[pc[s]]]_vars

C13_OnlyCompleteOutcomes ==
    /\ \A i \in 1..Len(all_results) : FullyPopulated(all_results[i])
    /\ \A i \in 1..Len(txn) : FullyPopulated(txn[i])
    /\ \A i \in 1..Len(db) : FullyPopulated(db[i])

C13_RowsNeverChange ==
    [][/\ Len(db') >= Len(db)
       /\ \A i \in 1..Len(db) : db'[i] = db[i]
       /\ \A s \in Sites : future[s].state = "FINISHED" => future'[s] = future[s]]_vars

\* C13: a worker goes through trace (with parse and metrics), resolve and
\* evaluate in that order; an outcome reaches the result list, the open
\* transaction or the table only after the evaluation of its site has returned
\* and with every field populated, and neither a committed row nor a returned
\* outcome changes afterwards.
C13_PipelineOrder ==
    /\ C13_StagesInOrder
    /\ []C13_OnlyCompleteOutcomes
    /\ C13_RowsNeverChange

\* a row with a resolved name is committed
C13_Witness ==
    \E i \in 1..Len(db) : db[i][2] > 0 /\ db[i][6] = PtrName /\ FullyPopulated(db[i])

\* C14: the recorded path is the addresses of the responsive lines in the
\* order of the lines, geo_ip_data joins them in that order, and the last
\* responsive address is the last element of the path, absent exactly when the
\* path is empty.
C14_PathOrder ==
    \A s \in Sites :
        Measured(s) =>
            LET f == frame[s]
            IN  /\ f.path = AddressesFrom(net[s], 2)
                /\ Len(f.geo_ip_data) = (IF f.path = <<>> THEN 0 ELSE 2 * Len(f.path) - 1)
                /\ \A k \in 1..Len(f.path) : f.geo_ip_data[2 * k - 1] = f.path[k]
                /\ \A k \in 1..(Len(f.path) - 1) : f.geo_ip_data[2 * k] = Separator
                /\ f.last_responded_ip = None <=> f.path = <<>>
                /\ f.path # <<>> => f.last_responded_ip = Last(f.path)

\* two different hops, the resolver about to be asked for the second
C14_Witness ==
    \E s \in Sites :
        /\ pc[s] = "gethostbyaddr"
        /\ frame[s].path = <<IpA, IpB>>
        /\ frame[s].last_responded_ip = IpB

\* C15: the rows committed in a run stand in target-list order: the sites of
\* the table are a subsequence of the target list, each at most once, whatever
\* order the workers finish in; the result list has the same order.
C15_ListOrder ==
    /\ \A i, j \in 1..Len(db) : i < j => Index(db[i][1]) < Index(db[j][1])
    /\ \A i, j \in 1..Len(all_results) :
           i < j => Index(all_results[i][1]) < Index(all_results[j][1])
    /\ \A i \in 1..Len(db) : db[i][1] \in Sites

\* the first row is committed, the second is being inserted
C15_Witness ==
    /\ Len(db) = 1
    /\ Len(txn) = 1
    /\ Index(db[1][1]) < Index(txn[1][1])

\* a connection to the database is open with an insert not yet committed
Persisting == txn # <<>>

C16_OneWriter ==
    /\ Len(txn) <= 1
    /\ Persisting => mainpc = "commit"
    /\ mainpc \in {"generate_reports", "done"} => ~Persisting

C16_WorkersNeverWrite ==
    [][(txn' # txn \/ db' # db \/ report' # report)
          => (pc' = pc /\ future' = future /\ frame' = frame
              /\ mainpc \in {"update_database", "commit", "generate_reports"})]_vars

\* C16: the table is written only in steps of main, inside update_database; at
\* most one insert is open at a time, and none while the report is generated.
C16_SerialSink ==
    /\ []C16_OneWriter
    /\ C16_WorkersNeverWrite

\* an insert is open while the worker of another site is still running
C16_Witness ==
    /\ Persisting
    /\ \E s \in Sites : pc[s] \in {"traceroute", "gethostbyaddr", "requests_get"}

\* the trace of the site succeeded and recorded no hop
ZeroHop(site) == RecordedLines(net[site]) = {}

ZeroHopOutcome(site) == <<site, 0, <<0, 1>>, 0, <<>>, None>>

\* C17: when the trace records no hop, the reverse lookup is never made, the
\* risk evaluator is entered with an absent address and sends its query, the
\* outcome returned is (site, 0, 0, 0, empty path, null name), and main commits
\* it as a row.
C17_ZeroHop ==
    \A s \in Sites :
        ZeroHop(s) =>
            /\ pc[s] # "gethostbyaddr"
            /\ dns[s] = "none"
            /\ pc[s] = "requests_get" =>
                   /\ frame[s].last_responded_ip = None
                   /\ frame[s].hop_count = 0
                   /\ frame[s].avg_latency[1] = 0 /\ frame[s].avg_latency[2] > 0
                   /\ Record("INFO", <<"Monitoring Anomalies">>, s) \in log
            /\ Succeeded(s) =>
                   /\ future[s].result = ZeroHopOutcome(s)
                   /\ http[s] # NoReply
                   /\ Record("INFO", <<"Monitoring Anomalies">>, s) \in log
            /\ (Succeeded(s) /\ mainpc \in {"shutdown", "generate_reports", "done"}) =>
                   \E i \in 1..Len(db) : db[i] = ZeroHopOutcome(s)

\* the row of a trace without a responsive hop is committed and reported
C17_Witness ==
    \E s \in Sites :
        /\ net[s] = <<Header, LineStars, LineStars>>
        /\ mainpc = "done"
        /\ db = <<ZeroHopOutcome(s)>>
        /\ report = <<<<s, "0", 0, "0", Word("Unknown")>>>>

====
